---- MODULE Spec2Model ----
(***************************************************************************)
(* Model of minicoros' future<T> (include/minicoros/future.h): lazily      *)
(* evaluated pipelines built with then / fail / map / finally / enqueue /  *)
(* && / || / >> and terminated with done(sink).                            *)
(*                                                                         *)
(* A future is its continuation_chain.  A chain is a tree of records:      *)
(*   [k |-> "chain", starter |-> s]                 future(starter)        *)
(*   [k |-> "transform", up |-> chain, stage |-> t] chain.transform(t)     *)
(* A promise / continuation is the stack of stages still to run:           *)
(*   [k |-> "sink"]                the callback given to done              *)
(*   [k |-> "stage", stage, next]  the sink transform() hands upstream     *)
(*   [k |-> "lhs" | "rhs" | "any" | "seqlhs", id, ...]  the lambdas that   *)
(*                                 feed tuple_result / any_result          *)
(* Values are tuples of integers (<<>> is void, <<v>> a plain value).      *)
(***************************************************************************)
EXTENDS Integers, Sequences, FiniteSets, TLC

VARIABLES stack, phase, nextId, prog, trace, pend, queue, bld, cancelled

vars == <<stack, phase, nextId, prog, trace, pend, queue, bld, cancelled>>

\* Bounds of the model.
MaxIds == 4
MaxStack == 2

\* The error values the application's starters and callbacks fail with.
StarterErr == 100
CallbackErr == 200

\* The id of the future the callback of stage id returns.
NestedId(id) == MaxIds + id

\* concrete_result<T>: a success carrying a value or a failure carrying an error.
Ok(v) == [ok |-> TRUE, v |-> v, e |-> 0]

Failure(e) == [ok |-> FALSE, v |-> <<>>, e |-> e]

\* One entry of the observation log.
Ev(ev, id, r, x) == [ev |-> ev, id |-> id, r |-> r, x |-> x]

Log(st, ev, id, r, x) == [st EXCEPT !.trace = Append(@, Ev(ev, id, r, x))]

NoResult == Failure(0)

\* The id of the stage or collector a continuation belongs to (0: the sink).
ContId(k) ==
  CASE k.k = "sink" -> 0
    [] k.k = "stage" -> k.stage.id
    [] OTHER -> k.id

ThenKinds == {"val", "err", "fut", "futok"}
FailKinds == {"val", "err", "fut"}
MapKinds == {"id", "swap"}
Executors == {"imm", "queued"}

\* The value a user callback computes from its argument.
Bump(v) == [i \in DOMAIN v |-> v[i] + 1]

\* ---------------------------------------------------------------------------
\* User code: the callbacks handed to then / fail / map and the envelope
\* (result<T>: value, nested future or failure) each of them returns.
\* ---------------------------------------------------------------------------
Value(v) == [t |-> "value", v |-> v]

Nested(f) == [t |-> "future", f |-> f]

Raise(e) == [t |-> "failure", e |-> e]

\* future(continuation<promise<T>>&& callback)
future(callback) == [k |-> "chain", starter |-> callback]

\* make_successful_future(value): the starter delivers the value at once.
make_successful_future(id, value) == future([k |-> "ok", id |-> id, v |-> value])

\* make_failed_future(error): the starter delivers failure{error} at once.
make_failed_future(id, error) == future([k |-> "fail", id |-> id, e |-> error])

\* A future whose starter stores its promise and invokes it later.
async_future(id) == future([k |-> "async", id |-> id])

then_callback(stage, v) ==
  CASE stage.cb = "val" -> Value(Bump(v))
    [] stage.cb = "err" -> Raise(CallbackErr + stage.id)
    [] stage.cb = "fut" -> Nested(async_future(NestedId(stage.id)))
    [] OTHER -> Nested(make_successful_future(NestedId(stage.id), Bump(v)))

fail_callback(stage, e) ==
  CASE stage.cb = "val" -> Value(<<e + 1>>)
    [] stage.cb = "err" -> Raise(e + 1)
    [] OTHER -> Nested(async_future(NestedId(stage.id)))

map_callback(stage, r) ==
  CASE stage.cb = "id" -> r
    [] r.ok -> Failure(CallbackErr + stage.id)
    [] OTHER -> Ok(<<r.e>>)

\* ---------------------------------------------------------------------------
\* Evaluation.  st is the record [trace, pend, queue, bld, cancelled].
\* ---------------------------------------------------------------------------
RECURSIVE evaluate_into(_, _, _)
RECURSIVE Invoke(_, _, _)

\* The id of the stage or starter a chain ends with.
ChainId(chain) == IF chain.k = "transform" THEN chain.stage.id ELSE chain.starter.id

\* continuation_chain::cancel: the chain will not be evaluated.
cancel(chain, st) == [st EXCEPT !.cancelled = @ \cup {ChainId(chain)}]

\* ~continuation_chain of a chain that was never evaluated: silently cancelled.
chain_destructor(chain, st) == [st EXCEPT !.cancelled = @ \cup {ChainId(chain)}]

\* continuation_chain::transform: append a stage.
transform(chain, stage) == [k |-> "transform", up |-> chain, stage |-> stage]

\* resolve_promise answering for a returned future instead of evaluating it.
resolve_promise_no_wait(res, promise, st) ==
  CASE res.t = "value" -> Invoke(promise, Ok(res.v), st)
    [] res.t = "future" -> Invoke(promise, Ok(<<>>), st)
    [] OTHER -> Invoke(promise, Failure(res.e), st)

\* result<T>::resolve_promise
resolve_promise(res, promise, st) ==
  CASE res.t = "value" -> Invoke(promise, Ok(res.v), st)
    [] res.t = "future" -> evaluate_into(res.f, promise, st)
    [] OTHER -> Invoke(promise, Failure(res.e), st)

\* concrete_result<T>::resolve_promise_with_callback
resolve_promise_with_callback(result, stage, promise, st) ==
  resolve_promise(then_callback(stage, result.v), promise,
                  Log(st, "cb", stage.id, result, "then"))

\* then with the test of the inbound outcome left out.
then_lambda_always(stage, result, promise, st) ==
  resolve_promise_with_callback(result, stage, promise, st)

\* then forwarding a fresh failure in place of the one it received.
then_lambda_fresh_failure(stage, result, promise, st) ==
  IF result.ok
    THEN resolve_promise_with_callback(result, stage, promise, st)
    ELSE Invoke(promise, Failure(0), st)

\* The stage then(callback) appends.
then_lambda(stage, result, promise, st) ==
  IF result.ok
    THEN resolve_promise_with_callback(result, stage, promise, st)
    ELSE Invoke(promise, Failure(result.e), st)

\* then(future) forwarding what the predecessor delivered.
then_future_lambda_forwards_pred(stage, result, promise, st) ==
  Invoke(promise, result, cancel(stage.coro, st))

\* then(future) without the cancel() call on the failure path.
then_future_lambda_no_cancel(stage, result, promise, st) ==
  IF result.ok
    THEN evaluate_into(stage.coro, promise, st)
    ELSE Invoke(promise, Failure(result.e), st)

\* The stage then(future) appends.
then_future_lambda(stage, result, promise, st) ==
  IF result.ok
    THEN evaluate_into(stage.coro, promise, st)
    ELSE Invoke(promise, Failure(result.e), cancel(stage.coro, st))

\* fail calling its callback but forwarding the failure it received.
fail_lambda_ignores_return(stage, result, promise, st) ==
  IF result.ok
    THEN Invoke(promise, result, st)
    ELSE Invoke(promise, Failure(result.e), Log(st, "cb", stage.id, result, "fail"))

\* The stage fail(callback) appends.
fail_lambda(stage, result, promise, st) ==
  IF result.ok
    THEN Invoke(promise, result, st)
    ELSE resolve_promise(fail_callback(stage, result.e), promise,
                         Log(st, "cb", stage.id, result, "fail"))

\* map leaving failures to pass by, the way then does.
map_lambda_success_only(stage, result, promise, st) ==
  IF result.ok
    THEN Invoke(promise, map_callback(stage, result),
                Log(st, "cb", stage.id, result, "map"))
    ELSE Invoke(promise, result, st)

\* The stage map(callback) appends.
map_lambda(stage, result, promise, st) ==
  Invoke(promise, map_callback(stage, result), Log(st, "cb", stage.id, result, "map"))

\* A work item that invokes the promise with a result it no longer holds.
work_item_moved_value(work, st) ==
  Invoke(work.promise, NoResult, Log(st, "run", work.id, work.value, ""))

\* The work item enqueue hands to the executor.
work_item(work, st) == Invoke(work.promise, work.value, Log(st, "run", work.id, work.value, ""))

\* An executor: it runs the work item at once, or keeps it for later.
executor(exec, work, st) ==
  LET st1 == Log(st, "submit", work.id, work.value, exec)
  IN IF exec = "imm"
       THEN work_item(work, st1)
       ELSE [st1 EXCEPT !.queue = Append(@, work)]

\* enqueue invoking the promise itself instead of handing work to the executor.
enqueue_lambda_inline(stage, value, promise, st) == Invoke(promise, value, st)

\* The stage enqueue(executor) appends.
enqueue_lambda(stage, value, promise, st) ==
  executor(stage.exec, [id |-> stage.id, value |-> value, promise |-> promise], st)

\* ---------------------------------------------------------------------------
\* The collectors of && / >> (tuple_result) and || (any_result), one per
\* evaluated operator, kept in bld under the operator's id.
\* ---------------------------------------------------------------------------
\* tuple_result(promise): both slots empty.
tuple_result(id, p, st) ==
  [st EXCEPT !.bld = (id :> [p |-> p, lset |-> FALSE, l |-> NoResult,
                             rset |-> FALSE, r |-> NoResult,
                             failed |-> FALSE, first |-> NoResult]) @@ @]

\* The slots are filled: emit the first failure to arrive, or else the merged tuple.
tuple_resolve(id, st) ==
  LET b == st.bld[id]
  IN IF b.lset /\ b.rset
       THEN Invoke(b.p, IF b.failed THEN b.first ELSE Ok(b.l.v \o b.r.v), st)
       ELSE st

\* The collector keeping the last failure to arrive instead of the first.
tuple_note_last(b, result) ==
  [b EXCEPT !.failed = @ \/ ~result.ok,
            !.first = IF ~result.ok THEN result ELSE @]

\* Record a failure if it is the first one to arrive.
tuple_note(b, result) ==
  [b EXCEPT !.failed = @ \/ ~result.ok,
            !.first = IF ~b.failed /\ ~result.ok THEN result ELSE @]

\* tuple_result::assign_lhs
assign_lhs(id, result, st) ==
  tuple_resolve(id, [st EXCEPT !.bld[id] =
    [tuple_note(@, result) EXCEPT !.lset = TRUE, !.l = result]])

\* tuple_result::assign_rhs
assign_rhs(id, result, st) ==
  tuple_resolve(id, [st EXCEPT !.bld[id] =
    [tuple_note(@, result) EXCEPT !.rset = TRUE, !.r = result]])

\* any_result(promise): nothing has arrived.
any_result(id, p, st) == [st EXCEPT !.bld = (id :> [p |-> p, set |-> FALSE]) @@ @]

\* any_result::assign: the first arrival is emitted, later ones are dropped.
assign(id, result, st) ==
  IF st.bld[id].set
    THEN st
    ELSE Invoke(st.bld[id].p, result, [st EXCEPT !.bld[id].set = TRUE])

\* operator&& storing the left outcome in the right slot and the right one in
\* the left slot.
and_starter_swapped_slots(s, p, st) ==
  LET st0 == tuple_result(s.id, p, st)
      st1 == evaluate_into(s.lhs, [k |-> "rhs", id |-> s.id], st0)
  IN evaluate_into(s.rhs, [k |-> "lhs", id |-> s.id], st1)

\* operator&& with assign_lhs pasted into both callbacks.
and_starter_both_lhs(s, p, st) ==
  LET st0 == tuple_result(s.id, p, st)
      st1 == evaluate_into(s.lhs, [k |-> "lhs", id |-> s.id], st0)
  IN evaluate_into(s.rhs, [k |-> "lhs", id |-> s.id], st1)

\* The starter of the future operator&& returns.
and_starter(s, p, st) ==
  LET st0 == tuple_result(s.id, p, st)
      st1 == evaluate_into(s.lhs, [k |-> "lhs", id |-> s.id], st0)
  IN evaluate_into(s.rhs, [k |-> "rhs", id |-> s.id], st1)

\* operator|| giving up on the right chain when the left one has delivered.
or_starter_cancels_loser(s, p, st) ==
  LET st0 == any_result(s.id, p, st)
      st1 == evaluate_into(s.lhs, [k |-> "any", id |-> s.id, side |-> "l"], st0)
  IN IF st1.bld[s.id].set
       THEN cancel(s.rhs, st1)
       ELSE evaluate_into(s.rhs, [k |-> "any", id |-> s.id, side |-> "r"], st1)

\* operator|| launching the right chain before the left one.
or_starter_rhs_first(s, p, st) ==
  LET st0 == any_result(s.id, p, st)
      st1 == evaluate_into(s.rhs, [k |-> "any", id |-> s.id, side |-> "r"], st0)
  IN evaluate_into(s.lhs, [k |-> "any", id |-> s.id, side |-> "l"], st1)

\* operator|| with both sides evaluated straight into the promise.
or_starter_unguarded(s, p, st) ==
  evaluate_into(s.rhs, p, evaluate_into(s.lhs, p, st))

\* The starter of the future operator|| returns.
or_starter(s, p, st) ==
  LET st0 == any_result(s.id, p, st)
      st1 == evaluate_into(s.lhs, [k |-> "any", id |-> s.id, side |-> "l"], st0)
  IN evaluate_into(s.rhs, [k |-> "any", id |-> s.id, side |-> "r"], st1)

\* operator>> launching the right chain without waiting for the left one.
seq_starter_concurrent(s, p, st) ==
  LET st0 == tuple_result(s.id, p, st)
      st1 == evaluate_into(s.lhs, [k |-> "lhs", id |-> s.id], st0)
  IN evaluate_into(s.rhs, [k |-> "rhs", id |-> s.id], st1)

\* The starter of the future operator>> returns.
seq_starter(s, p, st) ==
  evaluate_into(s.lhs, [k |-> "seqlhs", id |-> s.id, rhs |-> s.rhs],
                tuple_result(s.id, p, st))

\* operator>> giving up on the right chain when the left one failed.
seq_lhs_lambda_short_circuit(k, result, st) ==
  IF result.ok
    THEN evaluate_into(k.rhs, [k |-> "rhs", id |-> k.id], assign_lhs(k.id, result, st))
    ELSE assign_lhs(k.id, result, st)

\* operator>> filling the slots the wrong way round.
seq_lhs_lambda_swapped_slots(k, result, st) ==
  evaluate_into(k.rhs, [k |-> "lhs", id |-> k.id], assign_rhs(k.id, result, st))

\* The callback operator>> evaluates the left chain into.
seq_lhs_lambda(k, result, st) ==
  evaluate_into(k.rhs, [k |-> "rhs", id |-> k.id], assign_lhs(k.id, result, st))

\* A starter written by the user: it keeps the promise until its event arrives.
async_starter(s, p, st) == [st EXCEPT !.pend = @ \cup {[id |-> s.id, p |-> p]}]

\* Running the callable a chain was constructed from, with the promise p.
run_starter(s, p, st) ==
  LET st1 == Log(st, "start", s.id, NoResult, s.k)
  IN CASE s.k = "ok" -> Invoke(p, Ok(s.v), Log(st1, "out", s.id, Ok(s.v), ""))
       [] s.k = "fail" -> Invoke(p, Failure(s.e), Log(st1, "out", s.id, Failure(s.e), ""))
       [] s.k = "async" -> async_starter(s, p, st1)
       [] s.k = "and" -> and_starter(s, p, st)
       [] s.k = "or" -> or_starter(s, p, st)
       [] OTHER -> seq_starter(s, p, st)

\* Invoking a promise / continuation with a concrete_result.
Invoke(k, r, st) ==
  LET st1 == Log(st, IF k.k = "sink" THEN "sink" ELSE "in", ContId(k), r,
                 CASE k.k = "stage" -> k.stage.k
                   [] k.k = "any" -> k.side
                   [] OTHER -> k.k)
  IN CASE k.k = "sink" -> st1
       [] k.k = "lhs" -> assign_lhs(k.id, r, st1)
       [] k.k = "rhs" -> assign_rhs(k.id, r, st1)
       [] k.k = "any" -> assign(k.id, r, st1)
       [] k.k = "seqlhs" -> seq_lhs_lambda(k, r, st1)
       [] k.stage.k = "then" -> then_lambda(k.stage, r, k.next, st1)
       [] k.stage.k = "thenf" -> then_future_lambda(k.stage, r, k.next, st1)
       [] k.stage.k = "fail" -> fail_lambda(k.stage, r, k.next, st1)
       [] k.stage.k = "map" -> map_lambda(k.stage, r, k.next, st1)
       [] OTHER -> enqueue_lambda(k.stage, r, k.next, st1)

\* continuation_chain::evaluate_into: run the chain, delivering its result to sink.
evaluate_into(chain, sink, st) ==
  IF chain.k = "transform"
    THEN evaluate_into(chain.up, [k |-> "stage", stage |-> chain.stage, next |-> sink], st)
    ELSE run_starter(chain.starter, sink, st)

\* ---------------------------------------------------------------------------
\* The combinators.  Each consumes the future it is applied to and returns the
\* new future together with the (untouched) evaluation state.
\* ---------------------------------------------------------------------------
\* future::then(CallbackType&&)
then(self, id, cb, st) ==
  [f |-> transform(self, [k |-> "then", id |-> id, cb |-> cb]), st |-> st]

\* future::then(future<ReturnType>&&)
then_future(self, id, coro, st) ==
  [f |-> transform(self, [k |-> "thenf", id |-> id, coro |-> coro]), st |-> st]

\* future::fail
fail(self, id, cb, st) ==
  [f |-> transform(self, [k |-> "fail", id |-> id, cb |-> cb]), st |-> st]

\* future::map
map(self, id, cb, st) ==
  [f |-> transform(self, [k |-> "map", id |-> id, cb |-> cb]), st |-> st]

\* future::finally
finally(self, id, cb, st) == map(self, id, cb, st)

\* future::enqueue
enqueue(self, id, exec, st) ==
  [f |-> transform(self, [k |-> "enqueue", id |-> id, exec |-> exec]), st |-> st]

\* operator&& evaluating its left operand when the operator is applied.
op_and_eager(self, id, rhs, st) ==
  [f |-> future([k |-> "and", id |-> id, lhs |-> self, rhs |-> rhs]),
   st |-> evaluate_into(self, [k |-> "sink"], st)]

\* future::operator&&
op_and(self, id, rhs, st) ==
  [f |-> future([k |-> "and", id |-> id, lhs |-> self, rhs |-> rhs]), st |-> st]

\* future::operator||
op_or(self, id, rhs, st) ==
  [f |-> future([k |-> "or", id |-> id, lhs |-> self, rhs |-> rhs]), st |-> st]

\* future::operator>>
op_seq(self, id, rhs, st) ==
  [f |-> future([k |-> "seq", id |-> id, lhs |-> self, rhs |-> rhs]), st |-> st]

\* future::done
done(self, st) == evaluate_into(self, [k |-> "sink"], st)

\* ---------------------------------------------------------------------------
\* The program: it builds futures on a stack, then terminates the pipeline
\* with done or drops it; afterwards the starters' events and the executors'
\* work items arrive in any order.
\* ---------------------------------------------------------------------------
St == [trace |-> trace, pend |-> pend, queue |-> queue, bld |-> bld,
       cancelled |-> cancelled]

SetSt(st) ==
  /\ trace' = st.trace
  /\ pend' = st.pend
  /\ queue' = st.queue
  /\ bld' = st.bld
  /\ cancelled' = st.cancelled

Top == stack[Len(stack)]

Under == stack[Len(stack) - 1]

NoProg == [k |-> "none"]

Init ==
  /\ stack = <<>>
  /\ phase = "building"
  /\ nextId = 1
  /\ prog = NoProg
  /\ trace = <<>>
  /\ pend = {}
  /\ queue = <<>>
  /\ bld = <<>>
  /\ cancelled = {}

CanMake == phase = "building" /\ nextId <= MaxIds /\ Len(stack) < MaxStack

CanStage == phase = "building" /\ nextId <= MaxIds /\ Len(stack) >= 1

CanJoin == phase = "building" /\ nextId <= MaxIds /\ Len(stack) >= 2

Push(f) ==
  /\ stack' = Append(stack, f)
  /\ nextId' = nextId + 1
  /\ UNCHANGED <<phase, prog, trace, pend, queue, bld, cancelled>>

\* Replace the n topmost futures by the one a combinator returned.
Replace(n, res) ==
  /\ stack' = Append(SubSeq(stack, 1, Len(stack) - n), res.f)
  /\ nextId' = nextId + 1
  /\ SetSt(res.st)
  /\ UNCHANGED <<phase, prog>>

MakeSuccessfulFuture == CanMake /\ Push(make_successful_future(nextId, <<nextId>>))

MakeFailedFuture == CanMake /\ Push(make_failed_future(nextId, StarterErr + nextId))

MakeFuture == CanMake /\ Push(async_future(nextId))

Then == CanStage /\ \E cb \in ThenKinds : Replace(1, then(Top, nextId, cb, St))

ThenFuture == CanJoin /\ Replace(2, then_future(Under, nextId, Top, St))

Fail == CanStage /\ \E cb \in FailKinds : Replace(1, fail(Top, nextId, cb, St))

Map == CanStage /\ \E cb \in MapKinds : Replace(1, map(Top, nextId, cb, St))

Finally == CanStage /\ \E cb \in MapKinds : Replace(1, finally(Top, nextId, cb, St))

Enqueue == CanStage /\ \E ex \in Executors : Replace(1, enqueue(Top, nextId, ex, St))

And == CanJoin /\ Replace(2, op_and(Under, nextId, Top, St))

Or == CanJoin /\ Replace(2, op_or(Under, nextId, Top, St))

Sequence == CanJoin /\ Replace(2, op_seq(Under, nextId, Top, St))

Done ==
  /\ phase = "building"
  /\ Len(stack) = 1
  /\ phase' = "running"
  /\ prog' = Top
  /\ stack' = <<>>
  /\ SetSt(done(Top, St))
  /\ UNCHANGED nextId

Drop ==
  /\ phase = "building"
  /\ Len(stack) = 1
  /\ phase' = "dropped"
  /\ prog' = Top
  /\ stack' = <<>>
  /\ SetSt(chain_destructor(Top, St))
  /\ UNCHANGED nextId

\* The starter that kept the promise x.p invokes it with the result r.
starter_event(x, r, st) ==
  Invoke(x.p, r, Log([st EXCEPT !.pend = @ \ {x}], "out", x.id, r, ""))

\* The executor invokes the i-th work item it holds.
executor_run(i, st) ==
  work_item(st.queue[i],
    [st EXCEPT !.queue = SubSeq(@, 1, i - 1) \o SubSeq(@, i + 1, Len(@))])

\* The event an asynchronous starter waits for arrives: it invokes its promise.
Complete ==
  /\ \E x \in pend, good \in BOOLEAN :
       LET r == IF good THEN Ok(<<x.id>>) ELSE Failure(StarterErr + x.id)
       IN SetSt(starter_event(x, r, St))
  /\ UNCHANGED <<stack, phase, nextId, prog>>

\* An executor runs one of the work items it holds.
RunWork ==
  /\ \E i \in DOMAIN queue : SetSt(executor_run(i, St))
  /\ UNCHANGED <<stack, phase, nextId, prog>>

Next ==
  \/ MakeSuccessfulFuture
  \/ MakeFailedFuture
  \/ MakeFuture
  \/ Then
  \/ ThenFuture
  \/ Fail
  \/ Map
  \/ Finally
  \/ Enqueue
  \/ And
  \/ Or
  \/ Sequence
  \/ Done
  \/ Drop
  \/ Complete
  \/ RunWork

Spec == Init /\ [][Next]_vars

\* ---------------------------------------------------------------------------
\* Reading the observation log and the structure of the terminated pipeline.
\* ---------------------------------------------------------------------------
Events(ev) == {i \in DOMAIN trace : trace[i].ev = ev}

EventsAt(ev, id) == {i \in DOMAIN trace : trace[i].ev = ev /\ trace[i].id = id}

\* A stage of kind x received the result of its upstream.
Inbound(x) == {i \in DOMAIN trace : trace[i].ev = "in" /\ trace[i].x = x}

\* Nothing is left to happen: every starter delivered, every work item ran.
Quiescent == phase = "running" /\ pend = {} /\ queue = <<>>

IsJoin(s) == s.k \in {"and", "or", "seq"}

\* The pipeline handed to done is lhs <op> rhs.
TopIs(op) == phase = "running" /\ prog.k = "chain" /\ prog.starter.k = op

RECURSIVE IdsOf(_)
\* Every id of a chain: its stages, its starters and the futures its callbacks return.
IdsOf(chain) ==
  IF chain.k = "transform"
    THEN {chain.stage.id, NestedId(chain.stage.id)} \cup IdsOf(chain.up)
         \cup (IF chain.stage.k = "thenf" THEN IdsOf(chain.stage.coro) ELSE {})
    ELSE {chain.starter.id}
         \cup (IF IsJoin(chain.starter)
                 THEN IdsOf(chain.starter.lhs) \cup IdsOf(chain.starter.rhs)
                 ELSE {})

RECURSIVE Links(_, _)
\* <<id, down>>: the stage, collector or starter id delivers its outcome to down
\* (0: the sink).
Links(chain, down) ==
  IF chain.k = "transform"
    THEN {<<chain.stage.id, down>>} \cup Links(chain.up, chain.stage.id)
         \cup (IF chain.stage.k = "thenf" THEN Links(chain.stage.coro, down) ELSE {})
    ELSE IF IsJoin(chain.starter)
           THEN {<<chain.starter.id, down>>}
                \cup Links(chain.starter.lhs, chain.starter.id)
                \cup Links(chain.starter.rhs, chain.starter.id)
           ELSE {<<chain.starter.id, down>>}

RECURSIVE ThenFutures(_)
\* The then(future) stages of a chain.
ThenFutures(chain) ==
  IF chain.k = "transform"
    THEN (IF chain.stage.k = "thenf"
            THEN {chain.stage} \cup ThenFutures(chain.stage.coro)
            ELSE {})
         \cup ThenFutures(chain.up)
    ELSE IF IsJoin(chain.starter)
           THEN ThenFutures(chain.starter.lhs) \cup ThenFutures(chain.starter.rhs)
           ELSE {}

\* The stage that received trace[i] hands the same result, at once, to its downstream.
ForwardedUnchanged(i) ==
  /\ i < Len(trace)
  /\ trace[i + 1].ev \in {"in", "sink"}
  /\ trace[i + 1].r = trace[i].r
  /\ <<trace[i].id, trace[i + 1].id>> \in Links(prog, 0)

\* ---------------------------------------------------------------------------
\* Claims.
\* ---------------------------------------------------------------------------

\* C1: the terminal sink of a terminated pipeline is never invoked twice, and
\* it has been invoked exactly once when every starter has delivered and every
\* executor has run its work items.
C1_SinkExactlyOnce ==
  /\ Cardinality(Events("sink")) <= 1
  /\ Quiescent => Cardinality(Events("sink")) = 1

\* A race whose two sides both reported, with the sink invoked once.
C1_Witness ==
  /\ TopIs("or")
  /\ Quiescent
  /\ Cardinality(Events("sink")) = 1
  /\ Cardinality(EventsAt("in", prog.starter.id)) = 2

\* C2: a then callback runs exactly once when its stage receives a success
\* and never when it receives a failure; a fail callback runs exactly once
\* when its stage receives a failure and never when it receives a success; no
\* callback runs twice.
C2_CallbackIffOutcome ==
  \A id \in 1..nextId :
    LET calls == EventsAt("cb", id)
        inb(x, ok) == {i \in Inbound(x) : trace[i].id = id /\ trace[i].r.ok = ok}
    IN /\ Cardinality(calls) <= 1
       /\ Cardinality({i \in calls : trace[i].x = "then"}) = Cardinality(inb("then", TRUE))
       /\ Cardinality({i \in calls : trace[i].x = "fail"}) = Cardinality(inb("fail", FALSE))

\* A then stage ran its callback on a success, a second then stage was skipped
\* on the failure it returned, and a fail stage ran its callback on that failure.
C2_Witness ==
  /\ \E i \in Events("cb") : trace[i].x = "then"
  /\ \E i \in Events("cb") : trace[i].x = "fail"
  /\ \E i \in Inbound("then") : ~trace[i].r.ok

\* C3: a failure that reaches a then stage (callback form or then(future)
\* form) invokes no callback of that stage and is handed on at once, with the
\* same error, to the stage's downstream: so it travels through any number of
\* then stages to the nearest fail / map / finally stage or to the sink.
C3_FailureSkipsThen ==
  \A i \in Inbound("then") \cup Inbound("thenf") :
    ~trace[i].r.ok =>
      /\ EventsAt("cb", trace[i].id) = {}
      /\ ForwardedUnchanged(i)

\* A starter's failure crossed two then stages and was delivered to a fail stage.
C3_Witness ==
  \E i \in Inbound("then") :
    /\ ~trace[i].r.ok
    /\ i + 2 <= Len(trace)
    /\ i > 1 /\ trace[i - 1].ev = "out"
    /\ trace[i + 1].ev = "in" /\ trace[i + 1].x \in {"then", "thenf"}
    /\ trace[i + 2].ev = "in" /\ trace[i + 2].x = "fail"
    /\ trace[i + 2].r = trace[i - 1].r

\* C5: building a pipeline is lazy.  While futures are being constructed and
\* combined nothing runs: no starter, no callback, no executor, no collector;
\* whatever runs, runs once building is over, and the first thing to run is a
\* starter.
C5_BuildingIsLazy ==
  /\ phase = "building" =>
       trace = <<>> /\ pend = {} /\ queue = <<>> /\ bld = <<>> /\ cancelled = {}
  /\ trace # <<>> => phase # "building" /\ trace[1].ev = "start"

\* A pipeline combined with && out of all the ids there are, not yet terminated.
C5_Witness ==
  /\ phase = "building"
  /\ nextId > MaxIds
  /\ Len(stack) = 1
  /\ Top.k = "chain" /\ Top.starter.k = "and"
  /\ Top.starter.lhs.k = "transform"

\* C6: when the predecessor of then(future) delivers a failure, the nested
\* chain is cancelled and nothing of it ever runs, and the downstream receives
\* the predecessor's failure with the same error.
C6_ThenFutureCancelsOnFailure ==
  phase = "running" =>
    \A t \in ThenFutures(prog) :
      \A i \in EventsAt("in", t.id) :
        ~trace[i].r.ok =>
          /\ \A j \in DOMAIN trace : trace[j].id \notin IdsOf(t.coro)
          /\ ChainId(t.coro) \in cancelled
          /\ ForwardedUnchanged(i)

\* A failed predecessor reached a then(future) stage and the evaluation ended.
C6_Witness ==
  /\ Quiescent
  /\ \E i \in Inbound("thenf") :
       ~trace[i].r.ok /\ i < Len(trace) /\ trace[i + 1].ev = "sink"

\* The results the two sides of the top-level operator reported, in log order.
Reported(x) == {i \in EventsAt("in", prog.starter.id) : trace[i].x = x}

\* C7: in (a && b).done(sink) the sink is invoked at most once, only after
\* both a and b have reported, and exactly once when nothing is left to run.
C7_JoinWaitsForBoth ==
  TopIs("and") =>
    /\ Cardinality(Events("sink")) <= 1
    /\ \A s \in Events("sink") :
         /\ \E i \in Reported("lhs") : i < s
         /\ \E i \in Reported("rhs") : i < s
    /\ Quiescent => Cardinality(Events("sink")) = 1

\* One side reported a failure, the other side's event arrived later, and only
\* then was the sink invoked.
C7_Witness ==
  /\ TopIs("and")
  /\ \E i, j, s \in DOMAIN trace :
       /\ i < j /\ j < s
       /\ trace[i].ev = "in" /\ trace[i].id = prog.starter.id /\ ~trace[i].r.ok
       /\ trace[j].ev = "out"
       /\ trace[s].ev = "sink"

\* C8: in (a && b).done(sink), when exactly one side fails the sink receives
\* that failure; when both fail it receives the failure that arrived first.
C8_JoinFirstFailure ==
  TopIs("and") =>
    \A s \in Events("sink") : \A i \in Reported("lhs") : \A j \in Reported("rhs") :
      LET l == trace[i].r
          r == trace[j].r
      IN /\ ~l.ok /\ r.ok => trace[s].r = l
         /\ l.ok /\ ~r.ok => trace[s].r = r
         /\ ~l.ok /\ ~r.ok => trace[s].r = (IF i < j THEN l ELSE r)

\* Both sides failed, the right one first, and the sink got the right one's failure.
C8_Witness ==
  /\ TopIs("and")
  /\ \E s \in Events("sink") : \E i \in Reported("lhs") : \E j \in Reported("rhs") :
       /\ j < i
       /\ ~trace[i].r.ok /\ ~trace[j].r.ok
       /\ trace[i].r # trace[j].r
       /\ trace[s].r = trace[j].r

\* The outcome a starter that completes at once delivers.
SyncOutcome(s) == IF s.k = "ok" THEN Ok(s.v) ELSE Failure(s.e)

IsSync(chain) == chain.k = "chain" /\ chain.starter.k \in {"ok", "fail"}

\* C9: in (a || b).done(sink) the sink receives the outcome of the side that
\* reported first and nothing else; when both starters complete synchronously
\* that is the outcome of a.
C9_RaceFirstOutcome ==
  TopIs("or") =>
    LET both == EventsAt("in", prog.starter.id)
    IN /\ Cardinality(Events("sink")) <= 1
       /\ both # {} => Cardinality(Events("sink")) = 1
       /\ \A s \in Events("sink") : \A i \in both :
            (\A j \in both : i <= j) => trace[s].r = trace[i].r /\ i < s
       /\ IsSync(prog.starter.lhs) /\ IsSync(prog.starter.rhs) =>
            \A s \in Events("sink") : trace[s].r = SyncOutcome(prog.starter.lhs.starter)

\* The right side reported first, the left side later with another outcome,
\* and the sink holds the right side's outcome.
C9_Witness ==
  /\ TopIs("or")
  /\ Quiescent
  /\ \E s \in Events("sink") : \E i, j \in EventsAt("in", prog.starter.id) :
       /\ i < j
       /\ trace[i].x = "r" /\ trace[j].x = "l"
       /\ trace[i].r.ok # trace[j].r.ok
       /\ trace[s].r = trace[i].r

\* C10: in (a >> b).done(sink) nothing of b runs (no starter, no callback)
\* before a has delivered its outcome.
C10_SequenceStartsRhsAfterLhs ==
  TopIs("seq") =>
    \A j \in DOMAIN trace :
      trace[j].id \in IdsOf(prog.starter.rhs) =>
        \E i \in Reported("seqlhs") : i < j

\* a was asynchronous: b's starter was invoked after a's event had arrived.
C10_Witness ==
  /\ TopIs("seq")
  /\ prog.starter.lhs.k = "chain" /\ prog.starter.lhs.starter.k = "async"
  /\ \E j \in Events("start") : trace[j].id \in IdsOf(prog.starter.rhs)
RECURSIVE Stages(_)
\* The stages of a chain, those of the chains it embeds included.
Stages(chain) ==
  IF chain.k = "transform"
    THEN {chain.stage} \cup Stages(chain.up)
         \cup (IF chain.stage.k = "thenf" THEN Stages(chain.stage.coro) ELSE {})
    ELSE IF IsJoin(chain.starter)
           THEN Stages(chain.starter.lhs) \cup Stages(chain.starter.rhs)
           ELSE {}

\* The continuation the stage or collector id delivers to (0: the sink).
DownOf(id) == (CHOOSE l \in Links(prog, 0) : l[1] = id)[2]

\* Nothing but id delivers to the continuation d.
SoleFeeder(id, d) == \A l \in Links(prog, 0) : l[2] = d => l[1] = id

\* trace[j] is the delivery of the result r to the downstream of stage id.
DeliversTo(j, id, r) ==
  /\ j <= Len(trace)
  /\ trace[j].ev \in {"in", "sink"}
  /\ trace[j].r = r
  /\ trace[j].id = DownOf(id)

\* C11: in (a >> b).done(sink) with a failing, b is still evaluated, right
\* after a's failure has been recorded, and the sink receives a's failure.
C11_SequenceRunsRhsAfterLhsFailure ==
  TopIs("seq") =>
    \A i \in Reported("seqlhs") :
      ~trace[i].r.ok =>
        /\ i < Len(trace)
        /\ trace[i + 1].ev = "start"
        /\ trace[i + 1].id \in IdsOf(prog.starter.rhs)
        /\ \A s \in Events("sink") : trace[s].r = trace[i].r
        /\ Quiescent => Cardinality(Events("sink")) = 1

\* a failed, b ran a callback of its own and failed too, and the sink holds a's
\* failure.
C11_Witness ==
  /\ TopIs("seq")
  /\ \E i \in Reported("seqlhs") : \E j \in Reported("rhs") : \E s \in Events("sink") :
       /\ ~trace[i].r.ok /\ ~trace[j].r.ok
       /\ trace[i].r # trace[j].r
       /\ trace[s].r = trace[i].r
       /\ \E c \in Events("cb") : i < c /\ trace[c].id \in IdsOf(prog.starter.rhs)
\* C12: when the outcome of its upstream arrives, an enqueue stage submits
\* exactly one work item to its executor; nothing downstream of the stage is
\* invoked before the executor runs that item, and the downstream then
\* receives the upstream outcome unchanged.
C12_EnqueueDefersToExecutor ==
  phase = "running" =>
    /\ \A i \in Inbound("enqueue") :
         /\ i < Len(trace)
         /\ trace[i + 1].ev = "submit"
         /\ trace[i + 1].id = trace[i].id
         /\ trace[i + 1].r = trace[i].r
         /\ Cardinality(EventsAt("submit", trace[i].id)) = 1
    /\ \A j \in Events("run") :
         /\ Cardinality(EventsAt("run", trace[j].id)) = 1
         /\ \E i \in EventsAt("submit", trace[j].id) : i < j /\ trace[i].r = trace[j].r
         /\ DeliversTo(j + 1, trace[j].id, trace[j].r)
    /\ \A t \in Stages(prog) :
         t.k = "enqueue" /\ SoleFeeder(t.id, DownOf(t.id)) =>
           \A k \in DOMAIN trace :
             trace[k].ev # "start" /\ trace[k].id = DownOf(t.id) =>
               \E j \in EventsAt("run", t.id) : j < k

\* A work item was kept by its executor, ran later, and the callback of the
\* next stage ran on the value the upstream produced.
C12_Witness ==
  \E i \in Events("submit") : \E j \in Events("run") :
    /\ trace[i].id = trace[j].id
    /\ trace[i].x = "queued"
    /\ j + 2 <= Len(trace)
    /\ trace[j + 1].ev = "in" /\ trace[j + 2].ev = "cb"
    /\ trace[j + 2].r = trace[i].r
\* ---------------------------------------------------------------------------
\* Running another pipeline under the events of this run: the results the
\* asynchronous starters delivered and the order the executors ran their work
\* items in are read from the log and given to the other pipeline, each as
\* soon as that pipeline waits for it.
\* ---------------------------------------------------------------------------
EmptySt == [trace |-> <<>>, pend |-> {}, queue |-> <<>>, bld |-> <<>>, cancelled |-> {}]

\* A log entry made by the environment: an asynchronous starter's event, or an
\* executor running a work item it had kept.
IsEnvEvent(e) ==
  \/ e.ev = "out" /\ \E i \in EventsAt("start", e.id) : trace[i].x = "async"
  \/ e.ev = "run" /\ \E i \in EventsAt("submit", e.id) : trace[i].x = "queued"

Applicable(st, e) ==
  IF e.ev = "out"
    THEN \E x \in st.pend : x.id = e.id
    ELSE \E i \in DOMAIN st.queue : st.queue[i].id = e.id

ApplyEnv(st, e) ==
  IF e.ev = "out"
    THEN starter_event(CHOOSE x \in st.pend : x.id = e.id, e.r, st)
    ELSE executor_run(CHOOSE i \in DOMAIN st.queue : st.queue[i].id = e.id, st)

RECURSIVE Drain(_)
\* Give the pipeline every held event it is waiting for, oldest first.
Drain(rs) ==
  LET ready == {h \in DOMAIN rs.held : Applicable(rs.st, rs.held[h])}
  IN IF ready = {}
       THEN rs
       ELSE LET h == CHOOSE m \in ready : \A n \in ready : m <= n
            IN Drain([st |-> ApplyEnv(rs.st, rs.held[h]),
                      held |-> SubSeq(rs.held, 1, h - 1)
                               \o SubSeq(rs.held, h + 1, Len(rs.held))])

RECURSIVE ReplayFrom(_, _)
ReplayFrom(i, rs) ==
  IF i > Len(trace)
    THEN rs
    ELSE ReplayFrom(i + 1,
           IF IsEnvEvent(trace[i])
             THEN Drain([rs EXCEPT !.held = Append(@, trace[i])])
             ELSE rs)

\* The state the pipeline chain reaches under the events of this run.
Replay(chain) == ReplayFrom(1, [st |-> done(chain, EmptySt), held |-> <<>>])

\* What a user of the pipeline sees: the callbacks invoked and what the sink got.
Observable(tr) == SelectSeq(tr, LAMBDA e : e.ev \in {"cb", "sink"})

IsImmediate(stage) == stage.k = "enqueue" /\ stage.exec = "imm"

RECURSIVE Strip(_)
\* The chain without its enqueue stages on an immediate executor.
Strip(chain) ==
  IF chain.k = "transform"
    THEN IF IsImmediate(chain.stage)
           THEN Strip(chain.up)
           ELSE [k |-> "transform", up |-> Strip(chain.up),
                 stage |-> IF chain.stage.k = "thenf"
                             THEN [chain.stage EXCEPT !.coro = Strip(@)]
                             ELSE chain.stage]
    ELSE IF IsJoin(chain.starter)
           THEN [k |-> "chain",
                 starter |-> [chain.starter EXCEPT !.lhs = Strip(@), !.rhs = Strip(@)]]
           ELSE chain

\* C13: with an executor that runs each work item at once, a pipeline with
\* enqueue stages invokes the same callbacks with the same arguments in the
\* same order, and delivers the same outcome to the sink, as the pipeline
\* without those stages does under the same events.
C13_ImmediateEnqueueIsTransparent ==
  phase = "running" =>
    Observable(Replay(Strip(prog)).st.trace) = Observable(trace)

\* An enqueue stage on an immediate executor sat between a starter and a
\* callback, and the evaluation has ended.
C13_Witness ==
  /\ Quiescent
  /\ Events("sink") # {}
  /\ \E j \in Events("run") :
       /\ \E i \in EventsAt("submit", trace[j].id) : trace[i].x = "imm"
       /\ j + 2 <= Len(trace)
       /\ trace[j + 2].ev = "cb"
\* The stage with the given id.
StageAt(id) == CHOOSE t \in Stages(prog) : t.id = id

\* Every result the future returned by the callback of stage id delivers goes,
\* unchanged, to the downstream of that stage.
NestedOutcomeDelivered(id) ==
  \A j \in EventsAt("out", NestedId(id)) : DeliversTo(j + 1, id, trace[j].r)

\* C14: a fail stage that receives a success forwards it unchanged; one that
\* receives a failure with error e calls its callback g with e and delivers
\* what g(e) encodes: the recovered value, the returned failure, or the
\* outcome of the future g returned.
C14_FailDeliversCallbackResult ==
  phase = "running" =>
    \A i \in Inbound("fail") :
      LET id == trace[i].id
          g == fail_callback(StageAt(id), trace[i].r.e)
      IN IF trace[i].r.ok
           THEN EventsAt("cb", id) = {} /\ ForwardedUnchanged(i)
           ELSE /\ i + 2 <= Len(trace)
                /\ trace[i + 1] = Ev("cb", id, trace[i].r, "fail")
                /\ CASE g.t = "value" -> DeliversTo(i + 2, id, Ok(g.v))
                     [] g.t = "failure" -> DeliversTo(i + 2, id, Failure(g.e))
                     [] OTHER -> /\ trace[i + 2].ev = "start"
                                 /\ trace[i + 2].id = NestedId(id)
                                 /\ NestedOutcomeDelivered(id)

\* A fail callback returned a future, and the future's starter later delivered
\* a success to the stage's downstream.
C14_Witness ==
  \E i \in Inbound("fail") :
    /\ ~trace[i].r.ok
    /\ \E j \in EventsAt("out", NestedId(trace[i].id)) :
         trace[j].r.ok /\ DeliversTo(j + 1, trace[i].id, trace[j].r)
\* lhs && rhs for lhs >> rhs, and the other way round.
SwapTop(chain) ==
  [chain EXCEPT !.starter.k = IF @ = "and" THEN "seq" ELSE "and"]

\* The results the sink received, in order.
SinkResults(tr) == SelectSeq(tr, LAMBDA e : e.ev = "sink")

\* The callback invocations of a log, whatever their order.
Callbacks(tr) == {tr[i] : i \in {j \in DOMAIN tr : tr[j].ev = "cb"}}

\* Both sides of the top-level && or >> reported a success.
BothSucceeded ==
  /\ \E i \in Reported("lhs") \cup Reported("seqlhs") : trace[i].r.ok
  /\ \E i \in Reported("rhs") : trace[i].r.ok

\* C15: when both operands succeed, (a && b) and (a >> b) deliver the same
\* tuple to the sink and run the same callbacks on the same arguments: the
\* other operator, given the same operands and the same events (b's held back
\* until b is started), ends with the same sink result.
C15_JoinAndSequenceAgree ==
  (TopIs("and") \/ TopIs("seq")) /\ Quiescent /\ BothSucceeded =>
    LET other == Replay(SwapTop(prog))
    IN /\ other.held = <<>>
       /\ other.st.pend = {}
       /\ other.st.queue = <<>>
       /\ Len(SinkResults(trace)) = 1
       /\ SinkResults(other.st.trace) = SinkResults(trace)
       /\ Callbacks(other.st.trace) = Callbacks(trace)

\* In a && b, b reported its success before a did: a >> b would have started
\* b only after a.
C15_Witness ==
  /\ TopIs("and")
  /\ Quiescent
  /\ BothSucceeded
  /\ \E i \in Reported("lhs") : \E j \in Reported("rhs") : j < i
  /\ Len(SinkResults(trace)) = 1
\* What the callback of the then or fail stage did return when called at trace[i].
Returned(i) ==
  IF trace[i].x = "then"
    THEN then_callback(StageAt(trace[i].id), trace[i].r.v)
    ELSE fail_callback(StageAt(trace[i].id), trace[i].r.e)

\* The calls of then and fail callbacks.
CallbackCalls == {i \in Events("cb") : trace[i].x \in {"then", "fail"}}

\* C16: when a then or fail callback returns a future, that future is
\* evaluated at once and the stage's downstream is invoked only when the
\* future delivers, with the future's outcome; a returned value or failure is
\* delivered to the downstream directly.
C16_ReturnedFutureIsAwaited ==
  phase = "running" =>
    \A i \in CallbackCalls :
      LET id == trace[i].id
          ret == Returned(i)
      IN CASE ret.t = "value" -> DeliversTo(i + 1, id, Ok(ret.v))
           [] ret.t = "failure" -> DeliversTo(i + 1, id, Failure(ret.e))
           [] OTHER ->
                /\ i < Len(trace)
                /\ trace[i + 1] = Ev("start", NestedId(id), NoResult, ret.f.starter.k)
                /\ NestedOutcomeDelivered(id)
                /\ SoleFeeder(id, DownOf(id)) =>
                     \A j \in DOMAIN trace :
                       trace[j].ev \in {"in", "sink"} /\ trace[j].id = DownOf(id) =>
                         /\ j > i + 2
                         /\ trace[j - 1].ev = "out"
                         /\ trace[j - 1].id = NestedId(id)
                         /\ trace[j - 1].r = trace[j].r

\* A then callback returned a future that delivered only after something else
\* had happened, and the downstream was invoked with its outcome then.
C16_Witness ==
  \E i \in CallbackCalls :
    /\ trace[i].x = "then"
    /\ Returned(i).t = "future"
    /\ SoleFeeder(trace[i].id, DownOf(trace[i].id))
    /\ \E j \in EventsAt("out", NestedId(trace[i].id)) :
         /\ j > i + 2
         /\ DeliversTo(j + 1, trace[i].id, trace[j].r)
RECURSIVE FirstStarter(_)
\* The id of the starter the evaluation of a chain invokes first.
FirstStarter(chain) ==
  IF chain.k = "transform"
    THEN FirstStarter(chain.up)
    ELSE IF IsJoin(chain.starter)
           THEN FirstStarter(chain.starter.lhs)
           ELSE chain.starter.id

\* The deliveries to the downstream of stage id.
DeliveriesBelow(id) ==
  {j \in DOMAIN trace : trace[j].ev \in {"in", "sink"} /\ trace[j].id = DownOf(id)}

\* C17: in f.then(g) with g a future, g's starter is invoked exactly once,
\* right when f delivers a success and never before or on a failure of f; the
\* downstream receives the outcome g delivers when evaluated on its own under
\* the same events, whatever value f delivered.
C17_ThenFutureRunsNestedOnce ==
  phase = "running" =>
    \A i \in Inbound("thenf") :
      LET id == trace[i].id
          coro == StageAt(id).coro
          starts == {j \in Events("start") : trace[j].id \in IdsOf(coro)}
          alone == SinkResults(Replay(coro).st.trace)
      IN IF trace[i].r.ok
           THEN /\ i < Len(trace)
                /\ trace[i + 1].ev = "start"
                /\ trace[i + 1].id = FirstStarter(coro)
                /\ \A j \in starts :
                     /\ j > i
                     /\ EventsAt("start", trace[j].id) = {j}
                /\ \A k \in DOMAIN alone :
                     \E j \in DeliveriesBelow(id) : j > i + 1 /\ trace[j].r = alone[k].r
                /\ (\A l \in Links(prog, 0) :
                      l[2] = DownOf(id) => l[1] \in {id, ChainId(coro)}) =>
                     /\ Cardinality(DeliveriesBelow(id)) = Len(alone)
                     /\ Len(alone) <= 1
           ELSE starts = {}

\* f delivered a success, g's starter kept its promise and delivered another
\* value later on, and the downstream received g's value.
C17_Witness ==
  \E i \in Inbound("thenf") :
    /\ trace[i].r.ok
    /\ trace[i + 1].x = "async"
    /\ \E j \in EventsAt("out", FirstStarter(StageAt(trace[i].id).coro)) :
         /\ j > i + 1
         /\ trace[j].r.ok
         /\ trace[j].r # trace[i].r
         /\ DeliversTo(j + 1, trace[i].id, trace[j].r)
\* C18: a map stage calls its callback exactly once with the result it
\* receives, a success or a failure alike, and hands what the callback returns
\* to its downstream; finally(callback) builds the very pipeline map(callback)
\* builds.
C18_MapSeesEveryOutcome ==
  /\ phase = "running" =>
       \A i \in Inbound("map") :
         LET id == trace[i].id
         IN /\ i + 2 <= Len(trace)
            /\ trace[i + 1] = Ev("cb", id, trace[i].r, "map")
            /\ EventsAt("cb", id) = {i + 1}
            /\ DeliversTo(i + 2, id, map_callback(StageAt(id), trace[i].r))
  /\ CanStage =>
       \A cb \in MapKinds :
         /\ finally(Top, nextId, cb, St) = map(Top, nextId, cb, St)
         /\ done(finally(Top, nextId, cb, St).f, St) = done(map(Top, nextId, cb, St).f, St)

\* A map stage received a failure and its callback turned it into a success,
\* which the downstream received.
C18_Witness ==
  \E i \in Inbound("map") :
    /\ ~trace[i].r.ok
    /\ i + 2 <= Len(trace)
    /\ trace[i + 1].ev = "cb"
    /\ trace[i + 2].r = Ok(<<trace[i].r.e>>)
    /\ DeliversTo(i + 2, trace[i].id, trace[i + 2].r)
\* What a chain delivers when it is evaluated on its own under the events of
\* this run.
OutcomeAlone(chain) == SinkResults(Replay(chain).st.trace)

\* C19: in (a && b).done(sink) with both sides succeeding, the sink receives
\* a's values followed by b's values, whichever side delivered first; and a's
\* starter is invoked before anything of b is started.
C19_JoinKeepsOperandOrder ==
  TopIs("and") =>
    LET a == OutcomeAlone(prog.starter.lhs)
        b == OutcomeAlone(prog.starter.rhs)
    IN /\ \A s \in Events("sink") :
            Len(a) = 1 /\ Len(b) = 1 /\ a[1].r.ok /\ b[1].r.ok =>
              trace[s].r = Ok(a[1].r.v \o b[1].r.v)
       /\ trace # <<>>
       /\ trace[1].ev = "start"
       /\ trace[1].id = FirstStarter(prog.starter.lhs)
       /\ \A j \in Events("start") : trace[j].id \in IdsOf(prog.starter.rhs) => j > 1

\* b delivered its success before a did, and the sink still received a's
\* values first.
C19_Witness ==
  /\ TopIs("and")
  /\ \E s \in Events("sink") : \E i \in Reported("lhs") : \E j \in Reported("rhs") :
       /\ j < i
       /\ trace[i].r.ok /\ trace[j].r.ok
       /\ trace[i].r.v # trace[j].r.v
       /\ Len(OutcomeAlone(prog.starter.lhs)) = 1
       /\ OutcomeAlone(prog.starter.lhs)[1].r = trace[i].r
       /\ trace[s].r = Ok(trace[i].r.v \o trace[j].r.v)
\* What happened inside a chain: the events of its starters, stages and callbacks.
EventsOf(chain, tr) == SelectSeq(tr, LAMBDA e : e.id \in IdsOf(chain))

\* A chain went, so far, through the very steps it goes through when it is
\* evaluated on its own.
RunsAsAlone(chain) == EventsOf(chain, trace) = EventsOf(chain, Replay(chain).st.trace)

\* C20: in (a || b).done(sink) the slower side is not cancelled: both starters
\* are invoked, each side runs as it does on its own, b included when the sink
\* has already fired, both outcomes reach the collector, and only the later one
\* is kept from the sink.
C20_RaceLoserStillRuns ==
  TopIs("or") =>
    /\ trace[1].ev = "start" /\ trace[1].id = FirstStarter(prog.starter.lhs)
    /\ EventsAt("start", FirstStarter(prog.starter.rhs)) # {}
    /\ ChainId(prog.starter.lhs) \notin cancelled
    /\ ChainId(prog.starter.rhs) \notin cancelled
    /\ RunsAsAlone(prog.starter.lhs)
    /\ RunsAsAlone(prog.starter.rhs)
    /\ Quiescent =>
         /\ Cardinality(Reported("l")) = 1
         /\ Cardinality(Reported("r")) = 1
         /\ Cardinality(Events("sink")) = 1

\* The sink had fired with a's outcome when a callback of b ran and b's outcome
\* reached the collector.
C20_Witness ==
  /\ TopIs("or")
  /\ \E s \in Events("sink") : \E i \in Reported("l") : \E j \in Reported("r") :
       /\ i < s /\ s < j
       /\ \E c \in Events("cb") : s < c /\ c < j /\ trace[c].id \in IdsOf(prog.starter.rhs)
====
